---- MODULE Spec2Model ----
(***************************************************************************)
(* Customer_behaviour_analysis: the predictions page                       *)
(* (src/predicted_results.py, show_predictions_page) as a state machine    *)
(* over the Streamlit session, and the filter steps of the predictions     *)
(* page and of the insights page as operators.                             *)
(*                                                                         *)
(* One script run (top of the script to st.rerun(), st.stop(), an uncaught *)
(* exception or the last line) is one step.  A user action sets one widget *)
(* value or clicks one button and runs the script; a pending st.rerun()    *)
(* runs the script again with no input.                                    *)
(*                                                                         *)
(* Widgets follow the framework the page is written for: a widget keeps    *)
(* its value over runs while the arguments it is built with (its options   *)
(* and its index / default) are the same, takes its default when they      *)
(* change or when it has no state, and loses its state at the end of a     *)
(* run that did not render it (st.rerun() and st.stop() end a run that     *)
(* way; an uncaught exception does not).  A button is true only in the run *)
(* its click starts.                                                       *)
(***************************************************************************)
EXTENDS Integers, Sequences, FiniteSets, TLC

VARIABLES
    df,                   \* the merged base population, a sequence of rows
    temp_filters,         \* st.session_state.temp_filters, a dict
    last_selected_id,     \* st.session_state.last_selected_id or Absent
    last_selected_name,   \* st.session_state.last_selected_name or Absent
    filters_applied,      \* st.session_state.filters_applied
    page,                 \* st.session_state.page
    show_filter_dialog,   \* st.session_state.show_filter_dialog
    filtered_data,        \* st.session_state.filtered_data, if it is set
    page_number,          \* st.session_state.page_number, NoPage when not set
    selected_customer_id, \* st.session_state.selected_customer_id or Absent
    persona,              \* st.session_state.persona
    products,             \* st.session_state["product_<id>"], by customer id
    offers,               \* st.session_state["offer_<id>"], by customer id
    widgets,              \* the widget states the session holds, by key
    status,               \* how the last script run ended
    shown,                \* what the last run put on the page
    nsteps,               \* user actions left
    last_action,          \* the last widget the user set, and to what
    chain,                \* parity of the reruns since the last user action
    fkind,                \* the filter step that is applied, of which page
    fstage,               \* how often the filter step has been applied
    fin, fcrit,           \* the rows and the criteria the filter step is given
    fprod,                \* filtered_df after the product filter
    fout, fout2,          \* the result, and the result of filtering the result
    calc,                 \* the computation that is carried out on its own
    cin,                  \* what it is given
    cout                  \* what it returns, or how it fails

vars == <<df, temp_filters, last_selected_id, last_selected_name,
          filters_applied, page, show_filter_dialog, filtered_data,
          page_number, selected_customer_id, persona,
          products, offers, widgets, status, shown, nsteps, last_action,
          chain, fkind, fstage, fin, fcrit, fprod, fout, fout2,
          calc, cin, cout>>

sessionVars == <<df, temp_filters, last_selected_id, last_selected_name,
                 filters_applied, page, show_filter_dialog, filtered_data,
                 page_number, selected_customer_id, persona,
                 products, offers, widgets, status, shown, nsteps,
                 last_action, chain>>

filterVars == <<fkind, fstage, fin, fcrit, fprod, fout, fout2>>

calcVars == <<calc, cin, cout>>

-----------------------------------------------------------------------------
(* Values *)

All == "All"
\* a missing value of a column (pandas NaN): unequal to everything, itself included
NaN == "NaN"
\* a missing numeric value (pandas NaN in a float column)
NaNNum == -1
\* a missing string cell (pandas NaN in a column of strings)
NaNStr == <<"NaN">>
\* what dict.get returns for a missing key
None == "None"
\* a key that is not in st.session_state
Absent == "Absent"
\* page_number before line 383 has set it
NoPage == 0

\* Python == on the values the page compares; NaN == x is False for every x
PyEq(a, b) == a = b /\ a # NaN /\ b # NaN

PyNe(a, b) == ~PyEq(a, b)

\* dict.get(key)
Get(d, k) == IF k \in DOMAIN d THEN d[k] ELSE None

\* dict.get(key, default)
GetD(d, k, dflt) == IF k \in DOMAIN d THEN d[k] ELSE dflt

\* d[key] = value
Put(d, k, v) == [x \in (DOMAIN d) \cup {k} |-> IF x = k THEN v ELSE d[x]]

EmptyDict == [x \in {} |-> None]

SetMin(S) == CHOOSE x \in S : \A y \in S : x <= y

SetMax(S) == CHOOSE x \in S : \A y \in S : x >= y

-----------------------------------------------------------------------------
(* Strings are sequences of one-character strings, so that splitting,      *)
(* stripping and searching are computed.                                   *)

Lower(c) == IF c = "A" THEN "a" ELSE IF c = "B" THEN "b" ELSE c

\* str.strip() for the blank
RECURSIVE LStrip(_)
LStrip(s) == IF s # <<>> /\ Head(s) = " " THEN LStrip(Tail(s)) ELSE s

RECURSIVE RStrip(_)
RStrip(s) ==
    IF s # <<>> /\ s[Len(s)] = " " THEN RStrip(SubSeq(s, 1, Len(s) - 1)) ELSE s

Strip(s) == RStrip(LStrip(s))

\* the set of p.strip() for p in s.split(",") if p.strip()
RECURSIVE SplitFrom(_, _, _)
SplitFrom(s, i, cur) ==
    IF i > Len(s) THEN (IF Strip(cur) = <<>> THEN {} ELSE {Strip(cur)})
    ELSE IF s[i] = ","
         THEN (IF Strip(cur) = <<>> THEN {} ELSE {Strip(cur)})
              \cup SplitFrom(s, i + 1, <<>>)
         ELSE SplitFrom(s, i + 1, Append(cur, s[i]))

SplitProducts(s) == SplitFrom(s, 1, <<>>)

\* re.search(pat, s, re.IGNORECASE) for a pattern of plain characters and ".":
\* Series.str.contains takes the product name as a regular expression
\* (regex=True is the default), so "." in a name matches any character
MatchAt(pat, s, i) ==
    \A k \in 1..Len(pat) :
        /\ i + k - 1 <= Len(s)
        /\ \/ pat[k] = "."
           \/ Lower(pat[k]) = Lower(s[i + k - 1])

\* Series.str.contains(product, case=False, na=False) on one cell
StrContains(cell, pat) ==
    /\ cell # NaNStr
    /\ \E i \in 1..Len(cell) : MatchAt(pat, cell, i)

\* pat occurs in cell as a case-insensitive substring
IsSubstringCI(cell, pat) ==
    /\ cell # NaNStr
    /\ \E i \in 1..Len(cell) :
           \A k \in 1..Len(pat) :
               i + k - 1 <= Len(cell) /\ Lower(pat[k]) = Lower(cell[i + k - 1])

-----------------------------------------------------------------------------
(* The base population: load_prediction_data() merged with the RFM and     *)
(* category tables.  Similarity_Score is kept in tenths (5 is 0.5) and     *)
(* total_spent in whole rupees.                                            *)

Row(id, nm, g, st, c, prods, sim, spent, same, other) ==
    [customer_id |-> id, name |-> nm, gender |-> g, state |-> st,
     city_name |-> c, purchased_products_names |-> prods,
     Similarity_Score |-> sim, total_spent |-> spent,
     Predicted_Products_from_Same_Category |-> same,
     Predicted_Products_from_Other_Categories |-> other]

Ann1 == Row("c1", "Ann", "F", "TN", "Chennai", <<"a", ",", " ", "b">>, 5, 300,
            <<"a", ",", "b">>, <<"a", "b">>)
Bob2 == Row("c2", "Bob", "M", "KA", "Mysuru", <<"b", " ">>, NaNNum, 100,
            <<" ">>, <<"b">>)
\* a second customer of the same name
Ann3 == Row("c3", "Ann", "M", "KA", "Mysuru", <<"a">>, 9, 200,
            <<"a">>, <<" ">>)
\* a customer whose name is missing
Nul4 == Row("c4", NaN, "F", "TN", "Chennai", NaNStr, 9, 200,
            <<" ">>, <<" ">>)

Populations == { <<Ann1, Bob2, Ann3>>, <<Ann1, Bob2, Nul4>> }

\* a customer who bought the product "a.b", and one who bought "Aab"
Dot5 == Row("c5", "Cy", "F", "TN", "Chennai", <<"a", ".", "b">>, 5, 200,
            <<" ">>, <<" ">>)
Aab6 == Row("c6", "Di", "M", "KA", "Mysuru", <<"A", "a", "b">>, 9, 300,
            <<" ">>, <<" ">>)

\* the populations the filter step is applied to on its own
FilterPopulations == Populations \cup { <<Dot5, Aab6, Bob2>> }

\* the row numbers of d whose column col equals v (df[df[col] == v])
RowsEq(d, col, v) == {i \in 1..Len(d) : PyEq(d[i][col], v)}

\* Series.dropna().unique() of a column
ColumnValues(d, col) == {d[i][col] : i \in 1..Len(d)} \ {NaN}

\* float(df["Similarity_Score"] * 100)
Pct(score) == score * 10

-----------------------------------------------------------------------------
(* The session a script run works on, as one record: the session state,    *)
(* the widget states, the keys of the widgets rendered so far in this run, *)
(* the local filtered_df, what the run has put on the page, and how the    *)
(* run has ended ("run" while it has not).                                 *)

NoPersona == [label |-> None, of |-> None]

NoProduct == <<"None">>

\* nothing has been handed to a delivery function
NoDelivery ==
    [channel |-> None, customer_name |-> None, product |-> NoProduct,
     offer_msg |-> None, of |-> None]

\* st.session_state has no filtered_data
NoFilteredData == [set |-> FALSE, rows |-> <<>>]

\* nothing is on the page yet, and the run is in the filters section
Blank ==
    [view |-> "blank", live |-> {}, buttons |-> {}, page |-> <<>>,
     detail |-> None, persona |-> NoPersona, offer |-> None,
     product |-> NoProduct, at |-> "filters", sent |-> NoDelivery,
     charts |-> NoFilteredData]

Session ==
    [temp_filters |-> temp_filters,
     last_selected_id |-> last_selected_id,
     last_selected_name |-> last_selected_name,
     filters_applied |-> filters_applied,
     page |-> page,
     show_filter_dialog |-> show_filter_dialog,
     filtered_data |-> filtered_data,
     page_number |-> page_number,
     selected_customer_id |-> selected_customer_id,
     persona |-> persona,
     products |-> products,
     offers |-> offers,
     widgets |-> widgets,
     rendered |-> {},
     filtered_df |-> df,
     status |-> "run",
     shown |-> Blank]

\* a widget call: the widget keeps its state while it is built with the same
\* arguments (ident), and starts from its default otherwise
Widget(s, key, ident, dflt) ==
    [s EXCEPT !.widgets =
                  Put(@, key,
                      IF key \in DOMAIN @ /\ @[key].ident = ident
                      THEN @[key]
                      ELSE [ident |-> ident, val |-> dflt]),
              !.rendered = @ \cup {key}]

\* options[index] for index=options.index(default) if default in options
\* else 0; options[0] is "All"
IndexOf(options, default) == IF default \in options THEN default ELSE All

\* st.selectbox(label, options, index=..., key=key)
Selectbox(s, key, options, default) ==
    Widget(s, key, IndexOf(options, default), IndexOf(options, default))

\* the value the widget key returns in this run
Val(s, key) == s.widgets[key].val

customer_ids == {All} \cup ColumnValues(df, "customer_id")
customer_names == {All} \cup ColumnValues(df, "name")
genders == {All} \cup ColumnValues(df, "gender")
regions == {All} \cup ColumnValues(df, "state")
cities == {All} \cup ColumnValues(df, "city_name")

\* df[df[col] == v].iloc[0]: the first matching row; the caller has checked
\* that there is one, .iloc[0] of no row being an IndexError
FirstRow(col, v) == df[SetMin(RowsEq(df, col, v))]

\* temp_filters after a driver has been set to a specific customer: the
\* other driver and gender, region, city are overwritten from its row
SyncFrom(tf, row, other) ==
    Put(Put(Put(Put(tf, other, row[other]),
                "gender", row.gender),
            "region", row.state),
        "city", row.city_name)

\* temp_filters after a driver has been set back to "All"
ResetFrom(tf, other) ==
    Put(Put(Put(Put(tf, other, All), "gender", All), "region", All), "city", All)

\* "Check if we need to update from Name selection"
IdFromName(s) ==
    IF s.status # "run" THEN s
    ELSE IF /\ s.last_selected_name # Absent
            /\ PyNe(s.last_selected_name, Get(s.temp_filters, "name"))
            /\ PyNe(Get(s.temp_filters, "name"), All)
         THEN IF RowsEq(df, "name", Get(s.temp_filters, "name")) = {}
              THEN [s EXCEPT !.status = "IndexError"]
              ELSE [s EXCEPT !.temp_filters =
                        Put(@, "customer_id",
                            FirstRow("name", Get(s.temp_filters, "name")).customer_id)]
         ELSE s

IdSelectbox(s) ==
    IF s.status # "run" THEN s
    ELSE Selectbox(s, "filter_customer_id", customer_ids,
                   GetD(s.temp_filters, "customer_id", All))

\* "If customer ID changed, update all related fields"
IdChanged(s) ==
    IF s.status # "run" THEN s
    ELSE IF PyEq(Val(s, "filter_customer_id"), Get(s.temp_filters, "customer_id"))
         THEN s
    ELSE IF Val(s, "filter_customer_id") = All
         THEN [s EXCEPT !.temp_filters = ResetFrom(Put(@, "customer_id", All), "name")]
    ELSE IF RowsEq(df, "customer_id", Val(s, "filter_customer_id")) = {}
         THEN [s EXCEPT !.status = "IndexError"]
    ELSE [s EXCEPT
            !.temp_filters =
                SyncFrom(Put(@, "customer_id", Val(s, "filter_customer_id")),
                         FirstRow("customer_id", Val(s, "filter_customer_id")),
                         "name"),
            !.last_selected_id = Val(s, "filter_customer_id"),
            !.status = "rerun"]

\* with filter_col1: the Customer ID filter
CustomerIdFilter(s) == IdChanged(IdSelectbox(IdFromName(s)))

\* "Check if we need to update from ID selection"
NameFromId(s) ==
    IF s.status # "run" THEN s
    ELSE IF /\ s.last_selected_id # Absent
            /\ PyNe(s.last_selected_id, Get(s.temp_filters, "customer_id"))
            /\ PyNe(Get(s.temp_filters, "customer_id"), All)
         THEN IF RowsEq(df, "customer_id", Get(s.temp_filters, "customer_id")) = {}
              THEN [s EXCEPT !.status = "IndexError"]
              ELSE [s EXCEPT !.temp_filters =
                        Put(@, "name",
                            FirstRow("customer_id",
                                     Get(s.temp_filters, "customer_id")).name)]
         ELSE s

NameSelectbox(s) ==
    IF s.status # "run" THEN s
    ELSE Selectbox(s, "filter_name", customer_names,
                   GetD(s.temp_filters, "name", All))

\* "If name changed, update all related fields"
NameChanged(s) ==
    IF s.status # "run" THEN s
    ELSE IF PyEq(Val(s, "filter_name"), Get(s.temp_filters, "name"))
         THEN s
    ELSE IF Val(s, "filter_name") = All
         THEN [s EXCEPT !.temp_filters = ResetFrom(Put(@, "name", All), "customer_id")]
    ELSE IF RowsEq(df, "name", Val(s, "filter_name")) = {}
         THEN [s EXCEPT !.status = "IndexError"]
    ELSE [s EXCEPT
            !.temp_filters =
                SyncFrom(Put(@, "name", Val(s, "filter_name")),
                         FirstRow("name", Val(s, "filter_name")),
                         "customer_id"),
            !.last_selected_name = Val(s, "filter_name"),
            !.status = "rerun"]

\* with filter_col2: the Customer Name filter
CustomerNameFilter(s) == NameChanged(NameSelectbox(NameFromId(s)))

\* temp_filters[field] = the value of the widget key
Store(s, key, field) == [s EXCEPT !.temp_filters = Put(@, field, Val(s, key))]

\* a selectbox that, like a driver, ends the run in st.rerun() when its value
\* is not the one temp_filters holds
LeafSelectCascading(s, key, field, options) ==
    IF s.status # "run" THEN s
    ELSE [Store(Selectbox(s, key, options, GetD(s.temp_filters, field, All)),
                key, field)
          EXCEPT !.status =
              IF Val(Selectbox(s, key, options,
                               GetD(s.temp_filters, field, All)), key)
                     = GetD(s.temp_filters, field, All)
              THEN "run" ELSE "rerun"]

\* with filter_col3, filter_col4, filter_col5: a selectbox whose value is
\* written to temp_filters[field] on every run
LeafSelect(s, key, field, options) ==
    IF s.status # "run" THEN s
    ELSE Store(Selectbox(s, key, options, GetD(s.temp_filters, field, All)),
               key, field)

GenderFilter(s) == LeafSelect(s, "filter_gender", "gender", genders)
RegionFilter(s) == LeafSelect(s, "filter_region", "region", regions)
CityFilter(s) == LeafSelect(s, "filter_city", "city", cities)

\* with filter_col6: the products the population has bought
products_list ==
    UNION {SplitProducts(df[i].purchased_products_names) :
               i \in {j \in 1..Len(df) : df[j].purchased_products_names # NaNStr}}

\* with filter_col6: st.multiselect(..., default=[], key="filter_products")
ProductFilter(s) ==
    IF s.status # "run" THEN s
    ELSE Store(Widget(s, "filter_products", "fixed", {}),
               "filter_products", "products")

\* valid_scores = df["Similarity_Score"].dropna()
valid_scores == {df[i].Similarity_Score : i \in 1..Len(df)} \ {NaNNum}

min_similarity == Pct(SetMin(valid_scores))
max_similarity == Pct(SetMax(valid_scores))

\* with filter_col7: st.slider(..., value=(min_similarity, max_similarity))
SimilarityFilter(s) ==
    IF s.status # "run" \/ valid_scores = {} THEN s
    ELSE Store(Widget(s, "filter_similarity", "fixed",
                      <<min_similarity, max_similarity>>),
               "filter_similarity", "similarity")

min_spent == SetMin({df[i].total_spent : i \in 1..Len(df)})
max_spent == SetMax({df[i].total_spent : i \in 1..Len(df)})

\* with filter_col8: st.slider(..., value=(min_spent, max_spent))
SpentFilter(s) ==
    IF s.status # "run" THEN s
    ELSE Store(Widget(s, "filter_spent", "fixed", <<min_spent, max_spent>>),
               "filter_spent", "spent")

\* the run has rendered the button b
Button(s, b) == [s EXCEPT !.shown.buttons = @ \cup {b}]

\* with button_col1: "Apply Filters"
ApplyButton(s, ev) ==
    IF s.status # "run" THEN s
    ELSE IF ev.kind # "apply" THEN Button(s, "apply")
    ELSE [Button(s, "apply") EXCEPT
              !.filters_applied = TRUE,
              !.page_number = IF @ # NoPage THEN 1 ELSE @,
              !.status = "rerun"]

\* with button_col2: "Reset Filters"
ResetButton(s, ev) ==
    IF s.status # "run" THEN s
    ELSE IF ev.kind # "reset" THEN Button(s, "reset")
    ELSE [Button(s, "reset") EXCEPT
              !.filters_applied = FALSE,
              !.temp_filters = EmptyDict,
              !.page_number = IF @ # NoPage THEN 1 ELSE @,
              !.last_selected_id = Absent,
              !.last_selected_name = Absent,
              !.status = "rerun"]

-----------------------------------------------------------------------------
(* The filter step of the predictions page: filtered_df narrowed by one    *)
(* predicate after the other.  A criterion read with temp_filters[key]     *)
(* is taken with Get: the filter widgets have set every key by then.       *)

ByCustomerId(rows, tf) ==
    IF PyNe(Get(tf, "customer_id"), All)
    THEN SelectSeq(rows, LAMBDA r : PyEq(r.customer_id, Get(tf, "customer_id")))
    ELSE rows

ByName(rows, tf) ==
    IF PyNe(Get(tf, "name"), All)
    THEN SelectSeq(rows, LAMBDA r : PyEq(r.name, Get(tf, "name")))
    ELSE rows

ByGender(rows, tf) ==
    IF PyNe(Get(tf, "gender"), All)
    THEN SelectSeq(rows, LAMBDA r : PyEq(r.gender, Get(tf, "gender")))
    ELSE rows

ByRegion(rows, tf) ==
    IF "region" \in DOMAIN tf /\ PyNe(tf["region"], All)
    THEN SelectSeq(rows, LAMBDA r : PyEq(r.state, tf["region"]))
    ELSE rows

ByCity(rows, tf) ==
    IF "city" \in DOMAIN tf /\ PyNe(tf["city"], All)
    THEN SelectSeq(rows, LAMBDA r : PyEq(r.city_name, tf["city"]))
    ELSE rows

\* the mask of the product filter for one row: OR over the selected products
ProductMask(row, selected) ==
    \E product \in selected : StrContains(row.purchased_products_names, product)

ByProducts(rows, tf) ==
    IF "products" \in DOMAIN tf /\ tf["products"] # {}
    THEN SelectSeq(rows, LAMBDA r : ProductMask(r, tf["products"]))
    ELSE rows

\* a comparison with a missing number is False
InRange(x, isnan, lo, hi) == ~isnan /\ x >= lo /\ x <= hi

BySimilarity(rows, tf) ==
    IF "similarity" \in DOMAIN tf
    THEN SelectSeq(rows, LAMBDA r :
             InRange(Pct(r.Similarity_Score), r.Similarity_Score = NaNNum,
                     tf["similarity"][1], tf["similarity"][2]))
    ELSE rows

BySpent(rows, tf) ==
    IF "spent" \in DOMAIN tf
    THEN SelectSeq(rows, LAMBDA r :
             InRange(r.total_spent, r.total_spent = NaNNum,
                     tf["spent"][1], tf["spent"][2]))
    ELSE rows

\* filtered_df after the product filter
ThroughProducts(rows, tf) ==
    ByProducts(ByCity(ByRegion(ByGender(ByName(
        ByCustomerId(rows, tf), tf), tf), tf), tf), tf)

PredictionsFilter(rows, tf) ==
    BySpent(BySimilarity(ThroughProducts(rows, tf), tf), tf)

\* if st.session_state.filters_applied: apply all filters
ApplyFilters(s) ==
    IF s.status # "run" \/ ~s.filters_applied THEN s
    ELSE [s EXCEPT !.filtered_df = PredictionsFilter(@, s.temp_filters)]

\* guards that let an empty result through
ResultGuardsWithoutEmpty(s) ==
    IF s.status # "run" THEN s
    ELSE IF ~s.filters_applied
         THEN [s EXCEPT !.status = "stop", !.shown.view = "configure"]
    ELSE s

\* the two st.stop() guards before the results
ResultGuards(s) ==
    IF s.status # "run" THEN s
    ELSE IF ~s.filters_applied
         THEN [s EXCEPT !.status = "stop", !.shown.view = "configure"]
    ELSE IF Len(s.filtered_df) = 0
         THEN [s EXCEPT !.status = "stop", !.shown.view = "no_results"]
    ELSE s

-----------------------------------------------------------------------------
(* The results column and the detail pane *)

\* st.session_state.page_size
PageSize == 10

\* front, sorted by key in descending order, with x put after the rows
\* whose key is not smaller
InsertDesc(front, x, key) ==
    SelectSeq(front, LAMBDA r : r[key] >= x[key]) \o <<x>>
        \o SelectSeq(front, LAMBDA r : r[key] < x[key])

\* DataFrame.sort_values(key, ascending=False): rows of equal key keep
\* their order
RECURSIVE SortDesc(_, _)
SortDesc(rows, key) ==
    IF rows = <<>> THEN <<>>
    ELSE InsertDesc(SortDesc(SubSeq(rows, 1, Len(rows) - 1), key),
                    rows[Len(rows)], key)

Ids(rows) == [i \in 1..Len(rows) |-> rows[i].customer_id]

Range(seq) == {seq[i] : i \in 1..Len(seq)}

Max2(a, b) == IF a >= b THEN a ELSE b

Min2(a, b) == IF a <= b THEN a ELSE b

\* total_pages = max(1, (total_customers + page_size - 1) // page_size)
TotalPages(total_customers) ==
    Max2(1, (total_customers + PageSize - 1) \div PageSize)

\* page_number, set to 1 when the session has none, and left above
\* total_pages
BoundedPageUnclamped(pn, total_pages) == IF pn = NoPage THEN 1 ELSE pn

\* page_number, set to 1 when the session has none and brought down to
\* total_pages
BoundedPage(pn, total_pages) ==
    Min2(IF pn = NoPage THEN 1 ELSE pn, total_pages)

\* sorted_filtered.iloc[start_idx:end_idx]
PageSlice(sorted_filtered, pn) ==
    SubSeq(sorted_filtered, (pn - 1) * PageSize + 1,
           Min2((pn - 1) * PageSize + PageSize, Len(sorted_filtered)))

\* with results_col: the page of the result sorted by total_spent
Pagination(s) ==
    IF s.status # "run" THEN s
    ELSE [s EXCEPT
            !.page_number = BoundedPage(@, TotalPages(Len(s.filtered_df))),
            !.shown.view = "results",
            !.shown.at = "results",
            !.shown.page =
                Ids(PageSlice(SortDesc(s.filtered_df, "total_spent"),
                              BoundedPage(s.page_number,
                                          TotalPages(Len(s.filtered_df)))))]

\* the "View Details" button of a customer on the page
ViewDetails(s, ev) ==
    IF s.status # "run" THEN s
    ELSE IF ev.kind = "view" /\ ev.arg \in Range(s.shown.page)
         THEN [s EXCEPT !.selected_customer_id = ev.arg, !.status = "rerun"]
    ELSE s

\* the "Previous" and "Next Page" buttons, each disabled at its end
PageButtons(s, ev) ==
    IF s.status # "run" THEN s
    ELSE IF ev.kind = "prev" /\ s.page_number # 1
         THEN [s EXCEPT !.page_number = @ - 1, !.status = "rerun"]
    ELSE IF ev.kind = "next"
            /\ s.page_number # TotalPages(Len(s.filtered_df))
         THEN [s EXCEPT !.page_number = @ + 1, !.status = "rerun"]
    ELSE [s EXCEPT !.shown.buttons =
              @ \cup (IF s.page_number # 1 THEN {"prev"} ELSE {})
                \cup (IF s.page_number # TotalPages(Len(s.filtered_df))
                      THEN {"next"} ELSE {})]

\* with detail_col: "Determine which customer to display";
\* sorted_filtered.iloc[0] of no row is an IndexError, and so is .iloc[0] of
\* the rows of df of a customer that df does not have
DetailCustomer(s) ==
    IF s.status # "run" THEN s
    ELSE IF s.selected_customer_id = Absent /\ Len(s.filtered_df) = 0
         THEN [s EXCEPT !.status = "IndexError"]
    ELSE IF s.selected_customer_id # Absent
            /\ RowsEq(df, "customer_id", s.selected_customer_id) = {}
         THEN [s EXCEPT !.status = "IndexError"]
    ELSE [s EXCEPT !.shown.detail =
              IF s.selected_customer_id # Absent
              THEN s.selected_customer_id
              ELSE SortDesc(s.filtered_df, "total_spent")[1].customer_id]

PersonaLabels ==
    {"Champions", "Loyal Customers", "Potential Loyalists", "Big Spenders",
     "New Customers", "At Risk", "Hibernating"}

\* with row1_col2: the "Analyze" button of the detail customer, then the
\* persona box; generate_persona does not catch what subprocess.run raises
PersonaPane(s, ev) ==
    IF s.status # "run" THEN s
    ELSE IF ev.kind = "analyze"
         THEN IF ev.llm = "OSError"
              THEN [Button(s, "analyze") EXCEPT !.status = "OSError"]
              ELSE [Button(s, "analyze") EXCEPT
                        !.persona = [label |-> ev.llm, of |-> s.shown.detail],
                        !.status = "rerun"]
    ELSE IF s.persona.label # None
         THEN [Button(s, "analyze") EXCEPT !.shown.persona = s.persona]
    ELSE Button(s, "analyze")

\* same_cat_products if it is not empty, cross_cat_products otherwise
PredictedProducts(row) ==
    IF SplitProducts(row.Predicted_Products_from_Same_Category) # {}
    THEN SplitProducts(row.Predicted_Products_from_Same_Category)
    ELSE SplitProducts(row.Predicted_Products_from_Other_Categories)

\* "Customer-specific product selection": random.choice returns ev.pick
ChooseProduct(s, ev) ==
    IF s.status # "run" \/ s.shown.detail \in DOMAIN s.products THEN s
    ELSE IF PredictedProducts(FirstRow("customer_id", s.shown.detail)) = {}
         THEN [s EXCEPT !.products = Put(@, s.shown.detail, NoProduct)]
    ELSE IF ev.pick \in PredictedProducts(FirstRow("customer_id", s.shown.detail))
         THEN [s EXCEPT !.products = Put(@, s.shown.detail, ev.pick)]
    ELSE [s EXCEPT !.status = "invalid"]

\* the "Generate" button of the detail customer
GenerateButton(s, ev) ==
    IF s.status # "run" THEN s
    ELSE IF ev.kind = "generate"
         THEN [Button(s, "generate") EXCEPT
                   !.shown.product = s.products[s.shown.detail],
                   !.offers = Put(@, s.shown.detail,
                                  [text |-> ev.text,
                                   product |-> s.products[s.shown.detail],
                                   of |-> s.shown.detail]),
                   !.status = "rerun"]
    ELSE [Button(s, "generate") EXCEPT
              !.shown.product = s.products[s.shown.detail]]

\* "Display generated offer message"
OfferBox(s) ==
    IF s.status # "run" THEN s
    ELSE IF s.shown.detail \in DOMAIN s.offers
            /\ s.offers[s.shown.detail].text # ""
         THEN [s EXCEPT !.shown.offer = s.shown.detail]
    ELSE s

\* what send_offer_email, or format_offer_message for WhatsApp, is given
Delivery(s, channel) ==
    [channel |-> channel,
     customer_name |-> FirstRow("customer_id", s.shown.detail).name,
     product |-> s.products[s.shown.detail],
     offer_msg |-> s.offers[s.shown.detail].text,
     of |-> s.offers[s.shown.detail].of]

\* "Multi-Channel Distribution": the two send buttons, shown while the
\* customer of the pane has an offer, and the end of the script
Distribution(s, ev) ==
    IF s.status # "run" THEN s
    ELSE IF ~(s.shown.detail \in DOMAIN s.offers
              /\ s.offers[s.shown.detail].text # "")
         THEN [s EXCEPT !.status = "done"]
    ELSE IF ev.kind \in {"send_email", "send_whatsapp"}
         THEN [Button(Button(s, "send_email"), "send_whatsapp") EXCEPT
                   !.shown.sent = Delivery(s, ev.kind),
                   !.status = "done"]
    ELSE [Button(Button(s, "send_email"), "send_whatsapp") EXCEPT
              !.status = "done"]

\* with row2_col2: the AI offer, and the distribution below it
OfferPane(s, ev) ==
    Distribution(OfferBox(GenerateButton(ChooseProduct(s, ev), ev)), ev)

\* the uncaught exceptions that end a run
Faults == {"IndexError", "OSError", "AttributeError"}

\* the end of a script run: the states of the widgets the run did not render
\* are dropped, unless an uncaught exception ended it
EndRun(s) ==
    IF s.status \in Faults
    THEN [s EXCEPT !.shown.view = "error", !.shown.live = s.rendered]
    ELSE [s EXCEPT !.widgets = [k \in (DOMAIN @) \cap s.rendered |-> @[k]],
                   !.shown = IF s.status = "rerun" THEN Blank
                             ELSE [@ EXCEPT !.live = s.rendered]]

\* the filter widgets, in the order of the script
FilterWidgets(s) ==
    SpentFilter(SimilarityFilter(ProductFilter(CityFilter(RegionFilter(
        GenderFilter(CustomerNameFilter(CustomerIdFilter(s))))))))

\* the Apply and Reset buttons, the filter step and the results
Results(s, ev) ==
    DetailCustomer(PageButtons(ViewDetails(Pagination(ResultGuards(
        ApplyFilters(ResetButton(ApplyButton(s, ev), ev)))), ev), ev))

\* one run of show_predictions_page from the session s0, with the button
\* click and the outside results (text generation, random.choice) ev
Render(s0, ev) ==
    EndRun(OfferPane(PersonaPane(Results(FilterWidgets(s0), ev), ev), ev))

-----------------------------------------------------------------------------
(* The application around the pages: the sidebar navigation, the home page *)
(* and the visualizations page (src/app.py, src/home_page_app.py)          *)

\* a sidebar button that sets the page and the dialog flag and leaves
\* filters_applied as it is
SidebarButtonKeepingApplied(s, ev, kind, target, dialog) ==
    IF s.status # "run" \/ ev.kind # kind THEN s
    ELSE [s EXCEPT !.page = target,
                   !.show_filter_dialog = dialog,
                   !.status = "rerun"]

\* if st.sidebar.button(...): the page, the two flags, st.rerun()
SidebarButton(s, ev, kind, target, dialog) ==
    IF s.status # "run" \/ ev.kind # kind THEN s
    ELSE [s EXCEPT !.page = target,
                   !.show_filter_dialog = dialog,
                   !.filters_applied = FALSE,
                   !.status = "rerun"]

\* the four buttons of the sidebar, in the order of main()
Sidebar(s, ev) ==
    SidebarButton(
        SidebarButton(
            SidebarButton(
                SidebarButton(s, ev, "nav_home", "home", FALSE),
                ev, "nav_visualizations", "visualizations", TRUE),
            ev, "nav_predictions", "predictions", FALSE),
        ev, "nav_insights", "product_customer_insights", FALSE)

\* show_home_page: the two buttons at the foot of the home page
HomePage(s, ev) ==
    IF s.status # "run" THEN s
    ELSE IF ev.kind = "view_analytics"
         THEN [s EXCEPT !.page = "visualizations",
                        !.show_filter_dialog = TRUE,
                        !.status = "rerun"]
    ELSE IF ev.kind = "customer_predictions"
         THEN [s EXCEPT !.page = "predictions", !.status = "rerun"]
    ELSE [Button(Button(s, "view_analytics"), "customer_predictions") EXCEPT
              !.shown.view = "home", !.shown.at = "home", !.status = "done"]

\* customer_with_purchases: customers of two regions and two genders, one
\* of them of no known region
CustomerWithPurchases ==
    << [customer_id |-> "c1", region |-> "TN", gender |-> "F"],
       [customer_id |-> "c2", region |-> "KA", gender |-> "M"],
       [customer_id |-> "c3", region |-> NaN, gender |-> "F"] >>

\* ["All"] + sorted(customer_with_purchases[col].dropna().unique())
VizOptions(col) ==
    {All} \cup ({CustomerWithPurchases[i][col] :
                    i \in 1..Len(CustomerWithPurchases)} \ {NaN})

\* data[data[col] == v] unless v is "All"
VizFilter(data, col, v) ==
    IF v = All THEN data ELSE SelectSeq(data, LAMBDA r : PyEq(r[col], v))

\* the filter form with its two selectboxes, that stores nothing
VisualizationsFiltersNotStoring(s, ev) ==
    IF s.status # "run" \/ ~(s.show_filter_dialog /\ ~s.filters_applied)
    THEN s
    ELSE IF ev.kind = "viz_apply"
         THEN [Selectbox(Selectbox(s, "viz_region", VizOptions("region"), All),
                         "viz_gender", VizOptions("gender"), All)
               EXCEPT !.filters_applied = TRUE,
                      !.show_filter_dialog = FALSE,
                      !.status = "rerun"]
    ELSE [Button(Selectbox(Selectbox(s, "viz_region", VizOptions("region"), All),
                           "viz_gender", VizOptions("gender"), All),
                 "viz_apply")
          EXCEPT !.shown.view = "filter_form"]

\* the rows the filter form stores for the selections of this run
FormData(s) ==
    [set |-> TRUE,
     rows |-> VizFilter(VizFilter(CustomerWithPurchases, "region",
                                  Val(s, "viz_region")),
                        "gender", Val(s, "viz_gender"))]

\* "FILTERS": the filter form, shown while the dialog is open and no filter
\* is applied; it stores filtered_data in the session on every run, and its
\* button applies it
VisualizationsFilters(s, ev) ==
    IF s.status # "run" \/ ~(s.show_filter_dialog /\ ~s.filters_applied)
    THEN s
    ELSE [VisualizationsFiltersNotStoring(s, ev) EXCEPT
              !.filtered_data =
                  FormData(VisualizationsFiltersNotStoring(s, ev))]

\* "SHOW VISUALIZATIONS": the charts of st.session_state.filtered_data;
\* reading it when the session has none is an AttributeError
Visualizations(s) ==
    IF s.status # "run" THEN s
    ELSE IF ~s.filters_applied THEN [s EXCEPT !.status = "done"]
    ELSE IF ~s.filtered_data.set THEN [s EXCEPT !.status = "AttributeError"]
    ELSE [s EXCEPT !.shown.view = "charts",
                   !.shown.charts = s.filtered_data,
                   !.status = "done"]

\* display_visualizations_page
VisualizationsPage(s, ev) ==
    Visualizations(VisualizationsFilters(
        IF s.status # "run" THEN s
        ELSE [s EXCEPT !.shown.at = "visualizations"], ev))

\* display_product_customer_insights_page: the page has its own filters
\* and reads none of the flags
InsightsPage(s) ==
    IF s.status # "run" THEN s
    ELSE [s EXCEPT !.shown.view = "insights",
                   !.shown.at = "product_customer_insights",
                   !.status = "done"]

\* "PAGE ROUTING"
Route(s, ev) ==
    IF s.page = "predictions" THEN Render(s, ev)
    ELSE IF s.page = "home" THEN EndRun(HomePage(s, ev))
    ELSE IF s.page = "visualizations" THEN EndRun(VisualizationsPage(s, ev))
    ELSE EndRun(InsightsPage(s))

\* one run of main() from the session s0
Main(s0, ev) == Route(Sidebar(s0, ev), ev)

-----------------------------------------------------------------------------
(* Steps *)

\* bounds of the model: the user actions of a behaviour of the page, and of
\* a behaviour of its five synchronised selectboxes alone
MaxActions == 3
MaxSyncActions == 5
MaxPageActions == 5
MaxOfferActions == 4
MaxAppActions == 4

Event(kind, arg, llm, text, pick) ==
    [kind |-> kind, arg |-> arg, llm |-> llm, text |-> text, pick |-> pick]

\* what random.choice may return
Picks == UNION {PredictedProducts(df[i]) : i \in 1..Len(df)} \cup {NoProduct}

\* what the text generation may return for a persona
LlmOutcomes == {"Champions", "Unclassified", "OSError"}

\* the first line of the generated offer: empty or not
OfferTexts == {"", "offer"}

\* the session after the run r
Commit(r) ==
    /\ temp_filters' = r.temp_filters
    /\ last_selected_id' = r.last_selected_id
    /\ last_selected_name' = r.last_selected_name
    /\ filters_applied' = r.filters_applied
    /\ page' = r.page
    /\ show_filter_dialog' = r.show_filter_dialog
    /\ filtered_data' = r.filtered_data
    /\ page_number' = r.page_number
    /\ selected_customer_id' = r.selected_customer_id
    /\ persona' = r.persona
    /\ products' = r.products
    /\ offers' = r.offers
    /\ widgets' = r.widgets
    /\ status' = r.status
    /\ shown' = r.shown
    /\ UNCHANGED <<df, fkind, fstage, fin, fcrit, fprod, fout, fout2,
                   calc, cin, cout>>

\* a run from s0 with the click ev; random.choice, where the run calls it,
\* returns any of the products it is given
Run(s0, kind, arg, llm, text) ==
    LET r0 == Main(s0, Event(kind, arg, llm, text, NoProduct))
    IN IF r0.status # "invalid"
       THEN Commit(r0)
       ELSE \E pick \in Picks :
                LET r == Main(s0, Event(kind, arg, llm, text, pick))
                IN r.status # "invalid" /\ Commit(r)

\* the two driver filters
Drivers == {"filter_customer_id", "filter_name"}

\* the last run has ended and the page waits for the user
Idle == status \in {"stop", "done"} \cup Faults

\* the user sets the widget key to v: the script runs with that value
UserSets(key, v) ==
    /\ Idle
    /\ nsteps > 0
    /\ key \in shown.live
    /\ v # widgets[key].val
    /\ Run([Session EXCEPT !.widgets[key].val = v], "none", None, None, "")
    /\ nsteps' = nsteps - 1
    /\ last_action' = IF key \in Drivers THEN [key |-> key, val |-> v]
                      ELSE [key |-> "leaf", val |-> None]
    /\ chain' = 0

\* the clicks that lead to a page
NavKinds ==
    {"nav_home", "nav_visualizations", "nav_predictions", "nav_insights",
     "view_analytics", "customer_predictions"}

\* the user clicks a button the page shows
UserClicks(kind, arg, llm, text) ==
    /\ Idle
    /\ nsteps > 0
    /\ Run(Session, kind, arg, llm, text)
    /\ nsteps' = nsteps - 1
    /\ last_action' = IF kind = "reset" THEN [key |-> "reset", val |-> None]
                      ELSE IF kind \in NavKinds
                      THEN [key |-> "nav", val |-> None]
                      ELSE IF last_action.key \in {"reset", "nav"}
                      THEN [key |-> None, val |-> None]
                      ELSE last_action
    /\ chain' = 0

mid_similarity == (min_similarity + max_similarity) \div 2
mid_spent == (min_spent + max_spent) \div 2

\* the ranges a slider offers between lo and hi
Ranges(lo, mid, hi) == {<<lo, hi>>, <<mid, hi>>}

SelectCustomerId == \E v \in customer_ids : UserSets("filter_customer_id", v)
SelectName == \E v \in customer_names : UserSets("filter_name", v)
SelectGender == \E v \in genders : UserSets("filter_gender", v)
SelectRegion == \E v \in regions : UserSets("filter_region", v)
SelectCity == \E v \in cities : UserSets("filter_city", v)
SelectProducts == \E v \in SUBSET products_list : UserSets("filter_products", v)
SlideSimilarity ==
    \E v \in Ranges(min_similarity, mid_similarity, max_similarity) :
        UserSets("filter_similarity", v)
SlideSpent ==
    \E v \in Ranges(min_spent, mid_spent, max_spent) : UserSets("filter_spent", v)

ClickApply ==
    /\ "apply" \in shown.buttons
    /\ UserClicks("apply", None, None, "")

ClickReset ==
    /\ "reset" \in shown.buttons
    /\ UserClicks("reset", None, None, "")

ClickViewDetails ==
    \E cid \in Range(shown.page) : UserClicks("view", cid, None, "")

ClickAnalyze ==
    /\ "analyze" \in shown.buttons
    /\ \E llm \in LlmOutcomes : UserClicks("analyze", None, llm, "")

ClickGenerate ==
    /\ "generate" \in shown.buttons
    /\ \E text \in OfferTexts : UserClicks("generate", None, None, text)

ClickPrevious ==
    /\ "prev" \in shown.buttons
    /\ UserClicks("prev", None, None, "")

ClickNext ==
    /\ "next" \in shown.buttons
    /\ UserClicks("next", None, None, "")

ClickSendEmail ==
    /\ "send_email" \in shown.buttons
    /\ UserClicks("send_email", None, None, "")

ClickSendWhatsApp ==
    /\ "send_whatsapp" \in shown.buttons
    /\ UserClicks("send_whatsapp", None, None, "")

\* st.rerun(): the script runs again at once
Rerun ==
    /\ status = "rerun"
    /\ Run(Session, "none", None, None, "")
    /\ chain' = 1 - chain
    /\ UNCHANGED <<nsteps, last_action>>

\* no filter step is applied on its own
NoFilterStep ==
    /\ fkind = None /\ fstage = "idle"
    /\ fin = <<>> /\ fcrit = EmptyDict
    /\ fprod = <<>> /\ fout = <<>> /\ fout2 = <<>>

\* no computation is carried out on its own
NoCalculation == calc = None /\ cin = None /\ cout = [done |-> FALSE]

\* the session before the first run of the page
NewSession ==
    /\ temp_filters = EmptyDict
    /\ last_selected_id = Absent
    /\ last_selected_name = Absent
    /\ filters_applied = FALSE
    /\ page = "predictions"
    /\ show_filter_dialog = FALSE
    /\ filtered_data = NoFilteredData
    /\ page_number = NoPage
    /\ selected_customer_id = Absent
    /\ persona = NoPersona
    /\ products = EmptyDict
    /\ offers = EmptyDict
    /\ widgets = EmptyDict
    /\ status = "rerun"
    /\ shown = Blank
    /\ last_action = [key |-> None, val |-> None]
    /\ chain = 0

Init ==
    /\ df \in Populations
    /\ NewSession
    /\ nsteps = MaxActions
    /\ NoFilterStep
    /\ NoCalculation

Next ==
    \/ Rerun
    \/ SelectCustomerId
    \/ SelectName
    \/ SelectGender
    \/ SelectRegion
    \/ SelectCity
    \/ SelectProducts
    \/ SlideSimilarity
    \/ SlideSpent
    \/ ClickApply
    \/ ClickReset
    \/ ClickViewDetails
    \/ ClickAnalyze
    \/ ClickGenerate
    \/ ClickSendEmail
    \/ ClickSendWhatsApp

Spec == Init /\ [][Next]_vars

\* the step a pending st.rerun() stands for, by what it does to chain: while
\* status is "rerun" no step of Next but Rerun can be taken, Rerun can, and
\* it flips chain
Pending == status = "rerun" /\ chain' = 1 - chain

\* the page with the user working its five synchronised selectboxes only
\* (Customer ID, Customer Name, Gender, Region, City), for more actions
InitSync ==
    /\ df \in Populations
    /\ NewSession
    /\ nsteps = MaxSyncActions
    /\ NoFilterStep
    /\ NoCalculation

NextSync ==
    \/ Rerun
    \/ SelectCustomerId
    \/ SelectName
    \/ SelectGender
    \/ SelectRegion
    \/ SelectCity

SpecSync == InitSync /\ [][NextSync]_vars

\* st.rerun() starts the next run at once: a pending rerun is not put off
\* for ever
FairSpecSync == SpecSync /\ WF_chain(Pending)

-----------------------------------------------------------------------------
(* The filter steps on their own: the filter of the predictions page, and   *)
(* the filter of the insights page (display_inline_filters) with its sort   *)
(* and its cap, each applied to a population and then to its own result.    *)

\* a row of the insights page: one prediction merged with its customer;
\* propensity_score is kept in twentieths (the step of the slider is 0.05)
InsightRow(i) ==
    [idx |-> i,
     category |-> IF i % 2 = 0 THEN "Hair" ELSE "Bath",
     product |-> IF i % 2 = 1 THEN "Soap"
                 ELSE IF i % 4 = 0 THEN "Shampoo" ELSE "Conditioner",
     propensity_score |-> ((i * 5) % 7) * 3,
     region |-> IF i % 3 = 0 THEN "South" ELSE "North",
     price_inr |-> 100 + 50 * (i % 3),
     gender |-> IF i % 4 < 2 THEN "F" ELSE "M",
     spending_category |-> IF i % 3 = 0 THEN "High Spender"
                           ELSE IF i % 3 = 1 THEN "Medium Spender"
                           ELSE "Low Spender",
     Recency |-> 35 * i,
     Frequency |-> IF i = 7 THEN NaNNum ELSE i % 4]

\* the number of rows of the insights population
NumInsightRows == 12

InsightRows == [i \in 1..NumInsightRows |-> InsightRow(i)]

ByCategory(rows, c) ==
    IF c.category # All
    THEN SelectSeq(rows, LAMBDA r : r.category = c.category)
    ELSE rows

ByProduct(rows, c) ==
    IF c.product # All
    THEN SelectSeq(rows, LAMBDA r : r.product = c.product)
    ELSE rows

ByPropensity(rows, c) ==
    SelectSeq(rows, LAMBDA r :
        InRange(r.propensity_score, r.propensity_score = NaNNum,
                c.propensity[1], c.propensity[2]))

ByInsightRegion(rows, c) ==
    IF c.region # All
    THEN SelectSeq(rows, LAMBDA r : r.region = c.region)
    ELSE rows

ByPrice(rows, c) ==
    SelectSeq(rows, LAMBDA r :
        InRange(r.price_inr, r.price_inr = NaNNum, c.price[1], c.price[2]))

ByInsightGender(rows, c) ==
    IF c.gender # All
    THEN SelectSeq(rows, LAMBDA r : r.gender = c.gender)
    ELSE rows

BySpending(rows, c) ==
    IF c.spending # All
    THEN SelectSeq(rows, LAMBDA r : r.spending_category = c.spending)
    ELSE rows

ByRecency(rows, c) ==
    SelectSeq(rows, LAMBDA r : r.Recency # NaNNum /\ r.Recency <= c.recency_max)

ByFrequency(rows, c) ==
    SelectSeq(rows, LAMBDA r :
        r.Frequency # NaNNum /\ r.Frequency >= c.min_frequency)

\* the orders sort_values may leave rows of equal key in: its default
\* algorithm is not stable
TieOrders == {"keep", "reverse"}

InsertBy(front, x, key, ties) ==
    IF ties = "keep"
    THEN SelectSeq(front, LAMBDA r : r[key] >= x[key]) \o <<x>>
             \o SelectSeq(front, LAMBDA r : r[key] < x[key])
    ELSE SelectSeq(front, LAMBDA r : r[key] > x[key]) \o <<x>>
             \o SelectSeq(front, LAMBDA r : r[key] <= x[key])

\* DataFrame.sort_values(key, ascending=False)
RECURSIVE SortValues(_, _, _)
SortValues(rows, key, ties) ==
    IF rows = <<>> THEN <<>>
    ELSE InsertBy(SortValues(SubSeq(rows, 1, Len(rows) - 1), key, ties),
                  rows[Len(rows)], key, ties)

\* a cap that starts after the first row
HeadNSkipsFirst(rows, n) == SubSeq(rows, 2, Min2(n, Len(rows)))

\* DataFrame.head(n)
HeadN(rows, n) == SubSeq(rows, 1, Min2(n, Len(rows)))

\* "Apply filters" of display_inline_filters
InsightsFilter(rows, c, ties) ==
    HeadN(SortValues(ByFrequency(ByRecency(BySpending(ByInsightGender(ByPrice(
              ByInsightRegion(ByPropensity(ByProduct(ByCategory(rows, c), c), c),
              c), c), c), c), c), c),
          "propensity_score", ties), c.top_n)

max_recency_value == SetMax({InsightRows[i].Recency : i \in 1..NumInsightRows})
min_price == SetMin({InsightRows[i].price_inr : i \in 1..NumInsightRows})
max_price == SetMax({InsightRows[i].price_inr : i \in 1..NumInsightRows})

\* criteria the widgets of the insights page can hold
InsightCriteria ==
    {[category |-> c, product |-> p, propensity |-> pr, region |-> r,
      price |-> pc, gender |-> g, spending |-> s, recency_max |-> rm,
      min_frequency |-> mf, top_n |-> n] :
        c \in {All, "Hair"}, p \in {All, "Shampoo"},
        pr \in {<<0, 20>>, <<3, 18>>}, r \in {All, "North"},
        pc \in Ranges(min_price, (min_price + max_price) \div 2, max_price),
        g \in {All, "F"}, s \in {All, "High Spender"},
        rm \in {Min2(365, max_recency_value), max_recency_value},
        mf \in {0, 1}, n \in {10, 20}}

\* criteria the widgets of the predictions page can hold
PredictionCriteria ==
    {[customer_id |-> i, name |-> n, gender |-> g, region |-> r, city |-> c,
      products |-> ps, similarity |-> sim, spent |-> sp] :
        i \in customer_ids, n \in customer_names, g \in genders,
        r \in regions, c \in cities, ps \in SUBSET products_list,
        sim \in Ranges(min_similarity, mid_similarity, max_similarity),
        sp \in Ranges(min_spent, mid_spent, max_spent)}

\* every criterion as its widget sets it when the user has touched none
DefaultCriteria ==
    [customer_id |-> All, name |-> All, gender |-> All, region |-> All,
     city |-> All, products |-> {},
     similarity |-> <<min_similarity, max_similarity>>,
     spent |-> <<min_spent, max_spent>>]

ApplyPredictions ==
    /\ fkind = "predictions" /\ fstage = "in"
    /\ fprod' = ThroughProducts(fin, fcrit)
    /\ fout' = PredictionsFilter(fin, fcrit)
    /\ fstage' = "once"
    /\ UNCHANGED <<sessionVars, calcVars, fkind, fin, fcrit, fout2>>

ReapplyPredictions ==
    /\ fkind = "predictions" /\ fstage = "once"
    /\ fout2' = PredictionsFilter(fout, fcrit)
    /\ fstage' = "twice"
    /\ UNCHANGED <<sessionVars, calcVars, fkind, fin, fcrit, fprod, fout>>

ApplyInsights ==
    /\ fkind = "insights" /\ fstage = "in"
    /\ \E ties \in TieOrders : fout' = InsightsFilter(fin, fcrit, ties)
    /\ fstage' = "once"
    /\ UNCHANGED <<sessionVars, calcVars, fkind, fin, fcrit, fprod, fout2>>

ReapplyInsights ==
    /\ fkind = "insights" /\ fstage = "once"
    /\ \E ties \in TieOrders : fout2' = InsightsFilter(fout, fcrit, ties)
    /\ fstage' = "twice"
    /\ UNCHANGED <<sessionVars, calcVars, fkind, fin, fcrit, fprod, fout>>

\* show_product_based_customer_insights after display_inline_filters: the
\* warning and the return for an empty filtered_data, the sections otherwise
ShowInsights ==
    /\ fkind = "insights" /\ fstage = "once"
    /\ ~cout.done
    /\ calc' = "show_product_based_customer_insights"
    /\ cout' = [done |-> TRUE, error |-> None,
                value |-> IF Len(fout) = 0 THEN "no_results" ELSE "sections"]
    /\ UNCHANGED <<sessionVars, filterVars, cin>>

InitFilter ==
    /\ NewSession
    /\ nsteps = 0
    /\ NoCalculation
    /\ fstage = "in" /\ fprod = <<>> /\ fout = <<>> /\ fout2 = <<>>
    /\ \/ /\ fkind = "predictions"
          /\ df \in FilterPopulations
          /\ fin = df
          /\ fcrit \in PredictionCriteria
       \/ /\ fkind = "insights"
          /\ df = <<>>
          /\ fin = InsightRows
          /\ fcrit \in InsightCriteria

NextFilter ==
    \/ ApplyPredictions
    \/ ReapplyPredictions
    \/ ApplyInsights
    \/ ReapplyInsights

SpecFilter == InitFilter /\ [][NextFilter]_vars

\* the two pages that filter a population and show its result: the
\* predictions page worked by a user, and one run of the insights page
InitResults ==
    \/ Init
    \/ InitFilter /\ fkind = "insights"

NextResults ==
    \/ fkind = None /\ Next
    \/ ApplyInsights
    \/ ShowInsights

SpecResults == InitResults /\ [][NextResults]_vars

-----------------------------------------------------------------------------
(* The predictions page over results of more than one page *)

PageCustomers ==
    <<"p01", "p02", "p03", "p04", "p05", "p06", "p07", "p08", "p09", "p10",
      "p11", "p12", "p13", "p14", "p15", "p16", "p17", "p18", "p19", "p20">>

\* customers of alternating gender, some of them of equal total_spent
PageRow(i) ==
    Row(PageCustomers[i], IF i % 2 = 1 THEN "Ann" ELSE "Bob",
        IF i % 2 = 1 THEN "F" ELSE "M", "TN", "Chennai", <<"a">>, 5,
        100 + 50 * (i % 5), <<"a">>, <<"b">>)

\* twelve customers: two pages, the second one short; and twenty: two full
\* pages, and one full page of either gender
PagePopulations ==
    { [i \in 1..12 |-> PageRow(i)], [i \in 1..20 |-> PageRow(i)] }

InitPages ==
    /\ df \in PagePopulations
    /\ NewSession
    /\ nsteps = MaxPageActions
    /\ NoFilterStep
    /\ NoCalculation

NextPages ==
    \/ Rerun
    \/ SelectGender
    \/ SlideSpent
    \/ ClickApply
    \/ ClickReset
    \/ ClickPrevious
    \/ ClickNext

SpecPages == InitPages /\ [][NextPages]_vars

-----------------------------------------------------------------------------
(* The predictions page worked up to the delivery of an offer *)

InitOffer ==
    /\ df \in Populations
    /\ NewSession
    /\ nsteps = MaxOfferActions
    /\ NoFilterStep
    /\ NoCalculation

NextOffer ==
    \/ Rerun
    \/ SelectGender
    \/ ClickApply
    \/ ClickViewDetails
    \/ ClickGenerate
    \/ ClickSendEmail
    \/ ClickSendWhatsApp

SpecOffer == InitOffer /\ [][NextOffer]_vars

-----------------------------------------------------------------------------
(* The application: navigation between the pages *)

\* the sidebar is rendered in every run, before the page
ClickSidebar ==
    /\ Idle
    /\ \E kind \in {"nav_home", "nav_visualizations", "nav_predictions",
                    "nav_insights"} :
           UserClicks(kind, None, None, "")

ClickViewAnalytics ==
    /\ "view_analytics" \in shown.buttons
    /\ UserClicks("view_analytics", None, None, "")

ClickCustomerPredictions ==
    /\ "customer_predictions" \in shown.buttons
    /\ UserClicks("customer_predictions", None, None, "")

ClickVizApply ==
    /\ "viz_apply" \in shown.buttons
    /\ UserClicks("viz_apply", None, None, "")

SelectVizRegion ==
    /\ "viz_region" \in shown.live
    /\ \E v \in VizOptions("region") : UserSets("viz_region", v)

SelectVizGender ==
    /\ "viz_gender" \in shown.live
    /\ \E v \in VizOptions("gender") : UserSets("viz_gender", v)

\* "SESSION STATE INIT" of main(): a new session starts on the home page
InitApp ==
    /\ df = <<Ann1, Bob2, Ann3>>
    /\ temp_filters = EmptyDict
    /\ last_selected_id = Absent
    /\ last_selected_name = Absent
    /\ filters_applied = FALSE
    /\ page = "home"
    /\ show_filter_dialog = FALSE
    /\ filtered_data = NoFilteredData
    /\ page_number = NoPage
    /\ selected_customer_id = Absent
    /\ persona = NoPersona
    /\ products = EmptyDict
    /\ offers = EmptyDict
    /\ widgets = EmptyDict
    /\ status = "rerun"
    /\ shown = Blank
    /\ last_action = [key |-> None, val |-> None]
    /\ chain = 0
    /\ nsteps = MaxAppActions
    /\ NoFilterStep
    /\ NoCalculation

NextApp ==
    \/ Rerun
    \/ ClickSidebar
    \/ ClickViewAnalytics
    \/ ClickCustomerPredictions
    \/ ClickVizApply
    \/ SelectVizRegion
    \/ SelectVizGender
    \/ ClickApply
    \/ ClickReset
    \/ SelectGender

SpecApp == InitApp /\ [][NextApp]_vars

-----------------------------------------------------------------------------
(* The computations on their own: RFM scoring and segmenting               *)
(* (src/source_data.py, show_rfm_analysis), the derived columns of the      *)
(* insights page (src/customer_prediction_insights.py) and the persona      *)
(* classification (generate_persona), each applied once to an input.        *)

\* a computation that has returned v, and one that has raised the error e
Returned(v) == [done |-> TRUE, error |-> None, value |-> v]
Raised(e) == [done |-> TRUE, error |-> e, value |-> None]

\* the values of the set S in ascending order
RECURSIVE SeqOfSet(_)
SeqOfSet(S) ==
    IF S = {} THEN <<>> ELSE <<SetMin(S)>> \o SeqOfSet(S \ {SetMin(S)})

InsertAsc(front, x) ==
    SelectSeq(front, LAMBDA v : v <= x) \o <<x>>
        \o SelectSeq(front, LAMBDA v : v > x)

\* the values of a column in ascending order
RECURSIVE SortAsc(_)
SortAsc(vals) ==
    IF vals = <<>> THEN <<>>
    ELSE InsertAsc(SortAsc(SubSeq(vals, 1, Len(vals) - 1)), vals[Len(vals)])

\* q times the value at position h / q (from 0) of the sorted column, by
\* linear interpolation between its neighbours
Interpolate(sorted, h, q) ==
    IF h % q = 0 THEN q * sorted[h \div q + 1]
    ELSE q * sorted[h \div q + 1]
             + (h % q) * (sorted[h \div q + 2] - sorted[h \div q + 1])

\* Series.quantile(k / q) for k = 0..q, each times q: the q + 1 bin edges of
\* pd.qcut(vals, q)
QuantileEdges(vals, q) ==
    [k \in 1..(q + 1) |-> Interpolate(SortAsc(vals), (Len(vals) - 1) * (k - 1), q)]

\* the bin (from 1) of the value x in the bins (edge, edge] of edges, the
\* first bin holding its left edge (include_lowest)
BinOf(x, edges) ==
    IF x = edges[1] THEN 1
    ELSE Cardinality({k \in 1..Len(edges) : edges[k] < x})

\* the labels of the bins of the values, for edges without duplicates
Cut(vals, q, edges, labels) ==
    IF Len(labels) # Len(edges) - 1
    THEN Raised("ValueError")
    ELSE Returned([i \in 1..Len(vals) |-> labels[BinOf(q * vals[i], edges)]])

\* pd.qcut(vals, q, labels=labels, duplicates=duplicates): duplicate bin
\* edges are an error, or are dropped before the labels are counted
Qcut(vals, q, labels, duplicates) ==
    IF Cardinality(Range(QuantileEdges(vals, q))) < q + 1 /\ duplicates = "raise"
    THEN Raised("ValueError")
    ELSE Cut(vals, q, SeqOfSet(Range(QuantileEdges(vals, q))), labels)

\* Series.rank(method='first'): equal values are ranked in the order of
\* their rows
RankFirst(vals) ==
    [i \in 1..Len(vals) |->
        1 + Cardinality({j \in 1..Len(vals) :
                             \/ vals[j] < vals[i]
                             \/ vals[j] = vals[i] /\ j < i})]

Column(rows, col) == [i \in 1..Len(rows) |-> rows[i][col]]

R_Score(rfm_data) == Qcut(Column(rfm_data, "Recency"), 4, <<4, 3, 2, 1>>, "raise")
F_Score(rfm_data) ==
    Qcut(RankFirst(Column(rfm_data, "Frequency")), 4, <<1, 2, 3, 4>>, "raise")
M_Score(rfm_data) == Qcut(Column(rfm_data, "Monetary"), 4, <<1, 2, 3, 4>>, "raise")

\* a segment function with the first threshold taken strictly
segment_customer_strict(score) ==
    IF score > 10 THEN "Champions"
    ELSE IF score >= 8 THEN "Loyal Customers"
    ELSE IF score >= 6 THEN "Potential Loyalists"
    ELSE IF score >= 5 THEN "At Risk"
    ELSE "Lost"

segment_customer(score) ==
    IF score >= 10 THEN "Champions"
    ELSE IF score >= 8 THEN "Loyal Customers"
    ELSE IF score >= 6 THEN "Potential Loyalists"
    ELSE IF score >= 5 THEN "At Risk"
    ELSE "Lost"

\* a sum of the scores that leaves the M_Score out
RfmSumWithoutM(r, f, m) == r + f

\* RFM_Score of one customer
RfmSum(r, f, m) == r + f + m

\* the row of a customer with its scores and its segment
Scored(row, r, f, m) ==
    [customer_id |-> row.customer_id, Recency |-> row.Recency,
     Frequency |-> row.Frequency, Monetary |-> row.Monetary,
     R_Score |-> r, F_Score |-> f, M_Score |-> m,
     RFM_Score |-> RfmSum(r, f, m),
     Segment |-> segment_customer(RfmSum(r, f, m))]

\* show_rfm_analysis up to the Segment column: the scored table, no table
\* for an empty one, or the error of a qcut
ShowRfmAnalysis(rfm_data) ==
    IF rfm_data = <<>> THEN Returned(<<>>)
    ELSE IF R_Score(rfm_data).error # None THEN R_Score(rfm_data)
    ELSE IF F_Score(rfm_data).error # None THEN F_Score(rfm_data)
    ELSE IF M_Score(rfm_data).error # None THEN M_Score(rfm_data)
    ELSE Returned([i \in 1..Len(rfm_data) |->
                      Scored(rfm_data[i], R_Score(rfm_data).value[i],
                             F_Score(rfm_data).value[i],
                             M_Score(rfm_data).value[i])])

\* rows of customer_rfm.csv: Recency in days, Frequency, Monetary
RfmValues ==
    {<<5, 10, 1000>>, <<50, 5, 500>>, <<100, 1, 100>>,
     <<5, 5, 100>>, <<50, 10, 1000>>, <<100, 5, 500>>}

\* the largest scored population
MaxRfmRows == 3

RECURSIVE SeqsUpTo(_, _)
SeqsUpTo(S, n) ==
    IF n = 0 THEN {<<>>}
    ELSE SeqsUpTo(S, n - 1)
             \cup {Append(s, x) : s \in {u \in SeqsUpTo(S, n - 1) : Len(u) = n - 1},
                                  x \in S}

RfmTable(triples) ==
    [i \in 1..Len(triples) |->
        [customer_id |-> i, Recency |-> triples[i][1],
         Frequency |-> triples[i][2], Monetary |-> triples[i][3]]]

RfmPopulations == {RfmTable(s) : s \in SeqsUpTo(RfmValues, MaxRfmRows) \ {<<>>}}

\* a computation takes its input and leaves its result
Computes(kind, result) ==
    /\ calc = kind
    /\ ~cout.done
    /\ cout' = result
    /\ UNCHANGED <<sessionVars, filterVars, calc, cin>>

ScoreRfm == Computes("show_rfm_analysis", ShowRfmAnalysis(cin))

SegmentCustomer == Computes("segment_customer", Returned(segment_customer(cin)))

\* the spending_category column of preprocess_prediction_data: tertiles of
\* total_spent (computed exactly), duplicate edges dropped
spending_category(total_spent) ==
    Qcut(total_spent, 3, <<"Low Spender", "Medium Spender", "High Spender">>,
         "drop")

\* the largest population of the derived columns
MaxSpenders == 4

\* total_spent columns
SpentColumns == SeqsUpTo({0, 100, 250}, MaxSpenders) \ {<<>>}

SpendingCategory == Computes("spending_category", spending_category(cin))

\* pd.cut(x, bins=bins, labels=labels): the label of the bin (edge, edge]
\* that holds x, no label for an x in none
PdCut(x, bins, labels) ==
    IF Cardinality({k \in 1..Len(bins) : bins[k] < x}) \in {0, Len(bins)}
    THEN NaN
    ELSE labels[Cardinality({k \in 1..Len(bins) : bins[k] < x})]

\* the propensity_category column of preprocess_prediction_data, the
\* propensity_score and the bins 0, 0.3, 0.6, 1.0 in tenths
propensity_category(propensity_score) ==
    PdCut(propensity_score, <<0, 3, 6, 10>>, <<"Low", "Medium", "High">>)

PropensityCategory ==
    Computes("propensity_category", Returned(propensity_category(cin)))

\* Floating-point numbers as fractions; 0 / 0 is not a number, and so is
\* every number computed from it.
RECURSIVE Gcd(_, _)
Gcd(x, y) == IF y = 0 THEN x ELSE Gcd(y, x % y)

\* x / y in lowest terms
Divide(x, y) ==
    IF y = 0 THEN [num |-> 0, den |-> 0]
    ELSE [num |-> x \div Gcd(x, y), den |-> y \div Gcd(x, y)]

IsNaN(x) == x.den = 0

Tenths(x) == Divide(x, 10)

\* x * 0.c
Times(x, c) == Divide(c * x.num, 10 * x.den)

Plus(x, y) ==
    IF IsNaN(x) \/ IsNaN(y) THEN Divide(0, 0)
    ELSE Divide(x.num * y.den + y.num * x.den, x.den * y.den)

Equals(x, y) == ~IsNaN(x) /\ ~IsNaN(y) /\ x.num * y.den = y.num * x.den

LessEq(x, y) == ~IsNaN(x) /\ ~IsNaN(y) /\ x.num * y.den <= y.num * x.den

ColumnMax(rows, col) == SetMax(Range(Column(rows, col)))

\* an engagement score whose total_transactions are not divided by their
\* maximum
engagement_score_raw(row, max_transactions) ==
    Plus(Plus(Times(Tenths(row.propensity_score), 4),
              Times(Tenths(row.embedding_similarity), 3)),
         Times(Divide(row.total_transactions, 1), 3))

\* engagement_score of a row, propensity_score and embedding_similarity in
\* tenths
engagement_score(row, max_transactions) ==
    Plus(Plus(Times(Tenths(row.propensity_score), 4),
              Times(Tenths(row.embedding_similarity), 3)),
         Times(Divide(row.total_transactions, max_transactions), 3))

\* the engagement_score column of preprocess_prediction_data
WithEngagement(rows) ==
    [i \in 1..Len(rows) |->
        [propensity_score |-> rows[i].propensity_score,
         embedding_similarity |-> rows[i].embedding_similarity,
         total_transactions |-> rows[i].total_transactions,
         total_spent |-> rows[i].total_spent,
         engagement_score |->
             engagement_score(rows[i], ColumnMax(rows, "total_transactions"))]]

priority_score(row, max_spent_of_rows) ==
    Plus(Plus(Times(Tenths(row.propensity_score), 5),
              Times(row.engagement_score, 3)),
         Times(Divide(row.total_spent, max_spent_of_rows), 2))

\* the priority_score column of display_top_customers
WithPriority(rows) ==
    [i \in 1..Len(rows) |->
        [propensity_score |-> rows[i].propensity_score,
         embedding_similarity |-> rows[i].embedding_similarity,
         total_transactions |-> rows[i].total_transactions,
         total_spent |-> rows[i].total_spent,
         engagement_score |-> rows[i].engagement_score,
         priority_score |->
             priority_score(rows[i], ColumnMax(rows, "total_spent"))]]

\* rows of the predictions table: scores in tenths, counts and amounts
ScoreRows ==
    [propensity_score : {0, 4, 10}, embedding_similarity : {0, 10},
     total_transactions : {0, 3}, total_spent : {0, 200}]

\* the largest population of the scores
MaxScored == 2

ScorePopulations == SeqsUpTo(ScoreRows, MaxScored) \ {<<>>}

EngagementScore == Computes("engagement_score", Returned(WithEngagement(cin)))

PriorityScore == Computes("priority_score", Returned(WithPriority(cin)))

\* str.lower() of one character
UpperLetters ==
    <<"A", "B", "C", "D", "E", "F", "G", "H", "I", "J", "K", "L",
      "M", "N", "O", "P", "Q", "R", "S", "T", "U", "V", "W", "X",
      "Y", "Z">>

LowerLetters ==
    <<"a", "b", "c", "d", "e", "f", "g", "h", "i", "j", "k", "l",
      "m", "n", "o", "p", "q", "r", "s", "t", "u", "v", "w", "x",
      "y", "z">>

\* a lower() that changes nothing
KeepCase(c) == c

LowerCase(c) ==
    IF \E i \in 1..Len(UpperLetters) : UpperLetters[i] = c
    THEN LowerLetters[CHOOSE i \in 1..Len(UpperLetters) : UpperLetters[i] = c]
    ELSE c

\* s.lower()
StrLower(s) == [i \in 1..Len(s) |-> LowerCase(s[i])]

\* pat in s
StrIn(pat, s) ==
    \E i \in 1..(Len(s) - Len(pat) + 1) : SubSeq(s, i, i + Len(pat) - 1) = pat

\* the labels of generate_persona, as sequences of characters
LabelChampions ==
    <<"C", "h", "a", "m", "p", "i", "o", "n", "s">>

LabelLoyalCustomers ==
    <<"L", "o", "y", "a", "l", " ", "C", "u", "s", "t", "o", "m",
      "e", "r", "s">>

LabelPotentialLoyalists ==
    <<"P", "o", "t", "e", "n", "t", "i", "a", "l", " ", "L", "o",
      "y", "a", "l", "i", "s", "t", "s">>

LabelBigSpenders ==
    <<"B", "i", "g", " ", "S", "p", "e", "n", "d", "e", "r", "s">>

LabelNewCustomers ==
    <<"N", "e", "w", " ", "C", "u", "s", "t", "o", "m", "e", "r", "s">>

LabelAtRisk ==
    <<"A", "t", " ", "R", "i", "s", "k">>

LabelHibernating ==
    <<"H", "i", "b", "e", "r", "n", "a", "t", "i", "n", "g">>

LabelUnclassified ==
    <<"U", "n", "c", "l", "a", "s", "s", "i", "f", "i", "e", "d">>

\* the labels in the order in which generate_persona looks for them
PersonaOrder ==
    <<LabelChampions, LabelLoyalCustomers, LabelPotentialLoyalists,
      LabelBigSpenders, LabelNewCustomers, LabelAtRisk, LabelHibernating>>

\* the loop over the labels, from the k-th on
RECURSIVE FirstLabelIn(_, _)
FirstLabelIn(stdout, k) ==
    IF k > Len(PersonaOrder) THEN LabelUnclassified
    ELSE IF StrIn(StrLower(PersonaOrder[k]), StrLower(stdout))
         THEN PersonaOrder[k]
    ELSE FirstLabelIn(stdout, k + 1)

\* generate_persona(row) when subprocess.run ends as run says: it raises
\* run.error, or it returns with run.stdout
generate_persona(run) ==
    IF run.error # None THEN Raised(run.error)
    ELSE Returned(FirstLabelIn(run.stdout, 1))

\* texts printed by the language model
StdOut1 ==
    <<>>

StdOut2 ==
    <<"l", "o", "y", "a", "l", " ", "c", "u", "s", "t", "o", "m",
      "e", "r", "s", " ", "s", "e", "c", "t", "i", "o", "n">>

StdOut3 ==
    <<"C", "H", "A", "M", "P", "I", "O", "N", "S">>

StdOut4 ==
    <<"B", "i", "g", " ", "S", "p", "e", "n", "d", "e", "r">>

StdOut5 ==
    <<"H", "i", "b", "e", "r", "n", "a", "t", "i", "n", "g", ",",
      " ", "n", "o", "t", " ", "C", "h", "a", "m", "p", "i", "o",
      "n", "s">>

StdOut6 ==
    <<"a", "t", " ", "r", "i", "s", "k", " ", "o", "r", " ", "n",
      "e", "w", " ", "c", "u", "s", "t", "o", "m", "e", "r", "s">>

StdOut7 ==
    <<"I", " ", "c", "a", "n", "n", "o", "t", " ", "t", "e", "l", "l">>

StdOut8 ==
    <<"P", "o", "t", "e", "n", "t", "i", "a", "l", " ", " ", "L",
      "o", "y", "a", "l", "i", "s", "t", "s">>

StdOut9 ==
    <<"a", " ", "p", "o", "t", "e", "n", "t", "i", "a", "l", " ",
      "l", "o", "y", "a", "l", "i", "s", "t", "s">>

StdOut10 ==
    <<"b", "i", "g", " ", "s", "p", "e", "n", "d", "e", "r", "s", "!">>

ModelOutputs ==
    {StdOut1, StdOut2, StdOut3, StdOut4, StdOut5, StdOut6, StdOut7, StdOut8,
     StdOut9, StdOut10}

\* what subprocess.run(["ollama", "run", "llama3.2"], ...) can do: return
\* with the text of the model, return with a non-zero code and no text (no
\* such model, no server), or raise because there is no ollama program
OllamaRuns ==
    [error : {None}, returncode : {0}, stdout : ModelOutputs]
        \cup {[error |-> None, returncode |-> 1, stdout |-> <<>>],
              [error |-> "FileNotFoundError", returncode |-> None,
               stdout |-> <<>>]}

GeneratePersona == Computes("generate_persona", generate_persona(cin))

\* the rows of customer_with_purchases that pass the region and the gender
\* chosen in the filter dialog of the visualizations page (the date range
\* left at its default, the whole range)
VisualizationsFilter(customer_with_purchases, selected_region, selected_gender) ==
    SelectSeq(customer_with_purchases,
              LAMBDA r : /\ selected_region # All => r.region = selected_region
                         /\ selected_gender # All => r.gender = selected_gender)

\* show_all_visualizations: the sections of data, and the RFM section of
\* rfm_data
show_all_visualizations(data, rfm_data) ==
    IF ShowRfmAnalysis(rfm_data).error # None THEN ShowRfmAnalysis(rfm_data)
    ELSE Returned([data |-> data, rfm |-> ShowRfmAnalysis(rfm_data).value])

\* the run of display_visualizations_page in which the filters are applied
display_visualizations_page(in) ==
    show_all_visualizations(
        VisualizationsFilter(in.customer_with_purchases, in.selected_region,
                             in.selected_gender),
        in.customer_rfm)

\* purchases of the customers 1, 2 and 3
Purchases ==
    <<[customer_id |-> 1, region |-> "North", gender |-> "F"],
      [customer_id |-> 2, region |-> "South", gender |-> "M"],
      [customer_id |-> 1, region |-> "North", gender |-> "F"],
      [customer_id |-> 3, region |-> "North", gender |-> "M"]>>

VisualizationInputs ==
    [customer_with_purchases : {Purchases},
     customer_rfm : {r \in RfmPopulations : Len(r) = MaxRfmRows},
     selected_region : {All, "North", "South"},
     selected_gender : {All, "F", "M"}]

DisplayVisualizations ==
    Computes("display_visualizations_page", display_visualizations_page(cin))

InitCalc ==
    /\ NewSession
    /\ nsteps = 0
    /\ df = <<>>
    /\ fkind = None /\ fstage = "idle"
    /\ fin = <<>> /\ fcrit = EmptyDict
    /\ fprod = <<>> /\ fout = <<>> /\ fout2 = <<>>
    /\ cout = [done |-> FALSE]
    /\ \/ calc = "show_rfm_analysis" /\ cin \in RfmPopulations
       \/ calc = "segment_customer" /\ cin \in 0..15
       \/ calc = "spending_category" /\ cin \in SpentColumns
       \/ calc = "propensity_category" /\ cin \in 0..10
       \/ calc = "generate_persona" /\ cin \in OllamaRuns
       \/ calc = "engagement_score" /\ cin \in ScorePopulations
       \/ /\ calc = "priority_score"
          /\ cin \in {WithEngagement(rows) : rows \in ScorePopulations}
       \/ calc = "display_visualizations_page" /\ cin \in VisualizationInputs

NextCalc ==
    \/ ScoreRfm
    \/ SegmentCustomer
    \/ SpendingCategory
    \/ PropensityCategory
    \/ EngagementScore
    \/ PriorityScore
    \/ GeneratePersona
    \/ DisplayVisualizations

SpecCalc == InitCalc /\ [][NextCalc]_vars

-----------------------------------------------------------------------------
(* Properties of the predictions page *)

\* the last run has come to its end or to st.stop(): nothing is pending
Settled == status \in {"stop", "done"}

Criterion(k) == Get(temp_filters, k)

\* gender, region and city of temp_filters are those of row
DemographicsOf(row) ==
    /\ Criterion("gender") = row.gender
    /\ Criterion("region") = row.state
    /\ Criterion("city") = row.city_name

\* C1: once the runs that follow the selection of a specific Customer ID
\* have ended, name, gender, region and city of temp_filters are those of
\* the first row of that customer.
C1_IdSelectionSyncs ==
    (Settled /\ last_action.key = "filter_customer_id" /\ last_action.val # All)
        => /\ Criterion("name") = FirstRow("customer_id", last_action.val).name
           /\ DemographicsOf(FirstRow("customer_id", last_action.val))

\* C2: once the runs that follow a driver being set back to "All" have
\* ended, both drivers and gender, region and city of temp_filters are "All",
\* and they are as long as the user sets no other filter.
C2_DriverResetClears ==
    (Settled /\ last_action.key \in Drivers /\ last_action.val = All)
        => \A k \in {"customer_id", "name", "gender", "region", "city"} :
               Criterion(k) = All

\* C3: a pending rerun is always followed by a run that does not end in
\* st.rerun(): the chain of reruns a user action starts comes to an end.
C3_SyncTerminates == [](status = "rerun" => <>(status # "rerun"))

\* C4: no run takes .iloc[0] of an empty match.
C4_LookupsGuarded == status # "IndexError"

\* C5: while a driver holds a specific customer, gender, region and city of
\* temp_filters are those of that customer's row.
C5_DemographicsFollowCustomer ==
    /\ (Settled /\ Criterion("customer_id") \notin {All, None})
           => DemographicsOf(FirstRow("customer_id", Criterion("customer_id")))
    /\ (Settled /\ Criterion("customer_id") \in {All, None}
               /\ Criterion("name") \notin {All, None, NaN})
           => DemographicsOf(FirstRow("name", Criterion("name")))

\* C10: the persona in the detail pane was generated from the metrics of
\* the customer of the pane, and so was the offer.
C10_PersonaOfDetailCustomer ==
    /\ shown.persona.label # None => shown.persona.of = shown.detail
    /\ shown.offer # None => offers[shown.offer].of = shown.detail

-----------------------------------------------------------------------------
(* Properties of the filter steps *)

PredictionsFiltered == fkind = "predictions" /\ fstage # "in"

\* the row r meets every active predicate of the criteria tf
SatisfiesAll(r, tf) ==
    /\ tf.customer_id # All => r.customer_id = tf.customer_id
    /\ tf.name # All => r.name = tf.name
    /\ tf.gender # All => r.gender = tf.gender
    /\ tf.region # All => r.state = tf.region
    /\ tf.city # All => r.city_name = tf.city
    /\ tf.products # {} =>
           \E p \in tf.products : IsSubstringCI(r.purchased_products_names, p)
    /\ r.Similarity_Score # NaNNum
    /\ Pct(r.Similarity_Score) >= tf.similarity[1]
    /\ Pct(r.Similarity_Score) <= tf.similarity[2]
    /\ r.total_spent >= tf.spent[1]
    /\ r.total_spent <= tf.spent[2]

\* C6: every row of the result of the predictions filter meets every active
\* predicate: the selected id, name, gender, region and city, one of the
\* selected products in its product list, and the two inclusive ranges.
C6_ResultSatisfiesAll ==
    PredictionsFiltered => \A i \in 1..Len(fout) : SatisfiesAll(fout[i], fcrit)

\* C7: with every criterion at its default the predictions filter returns
\* every row of the population, rows without a similarity score included.
C7_DefaultsKeepEveryRow ==
    (PredictionsFiltered /\ fcrit = DefaultCriteria) => fout = fin

\* C8: filtering the result of a filter step again, by the same criteria,
\* returns the same rows, for the predictions filter and for the insights
\* filter with its sort and its cap.
C8_FilterIdempotent ==
    fstage = "twice" => Len(fout2) = Len(fout) /\ Range(fout2) = Range(fout)

C8_Witness ==
    /\ fstage = "twice"
    /\ fkind = "insights"
    /\ Len(fin) > fcrit.top_n
    /\ Len(fout) = fcrit.top_n
    /\ fout2 # fout

\* C9: with products selected, and no other criterion before the product
\* filter active, a row passes the product filter if and only if its
\* product string holds one of the selected names as a case-insensitive
\* substring.
C9_ProductFilterIsSubstring ==
    (/\ PredictionsFiltered
     /\ fcrit.products # {}
     /\ \A k \in {"customer_id", "name", "gender", "region", "city"} :
            fcrit[k] = All)
        => \A i \in 1..Len(fin) :
               fin[i] \in Range(fprod)
                   <=> \E p \in fcrit.products :
                           IsSubstringCI(fin[i].purchased_products_names, p)

-----------------------------------------------------------------------------
(* Properties of the computations *)

RfmScored == calc = "show_rfm_analysis" /\ cout.done /\ cout.error = None

\* C11: in every scored population, R_Score, F_Score and M_Score of every
\* customer are in 1..4 and RFM_Score is their sum, hence in 3..12.
C11_ScoresInRange ==
    RfmScored =>
        \A i \in 1..Len(cout.value) :
            /\ cout.value[i].R_Score \in 1..4
            /\ cout.value[i].F_Score \in 1..4
            /\ cout.value[i].M_Score \in 1..4
            /\ cout.value[i].RFM_Score
                   = cout.value[i].R_Score + cout.value[i].F_Score
                         + cout.value[i].M_Score
            /\ cout.value[i].RFM_Score \in 3..12

C11_Witness ==
    /\ RfmScored
    /\ Len(cout.value) = 3
    /\ \E i \in 1..3 : cout.value[i].RFM_Score = 12
    /\ \E i \in 1..3 : cout.value[i].RFM_Score < 6

\* the segment of the threshold table for a score
TableSegment(score) ==
    CASE score \in 10..12 -> "Champions"
      [] score \in 8..9 -> "Loyal Customers"
      [] score \in 6..7 -> "Potential Loyalists"
      [] score = 5 -> "At Risk"
      [] score \in 3..4 -> "Lost"
      [] OTHER -> None

\* C12: every RFM_Score of 3..12 gets the one segment of the threshold
\* table: 10..12 Champions, 8..9 Loyal Customers, 6..7 Potential Loyalists,
\* 5 At Risk, 3..4 Lost.
C12_SegmentMatchesTable ==
    (calc = "segment_customer" /\ cout.done /\ cin \in 3..12)
        => cout.error = None /\ cout.value = TableSegment(cin)

C12_Witness ==
    calc = "segment_customer" /\ cout.done /\ cin = 10 /\ cout.value = "Champions"

\* the scored population of the worked example
RfmExample == RfmTable(<<<<5, 10, 1000>>, <<50, 5, 500>>, <<100, 1, 100>>>>)

C13_WithoutFrequencyTies ==
    /\ RfmScored =>
        /\ \A a, b \in 1..Len(cout.value) :
            /\ cout.value[a].Recency < cout.value[b].Recency
                   => cout.value[a].R_Score >= cout.value[b].R_Score
            /\ cout.value[a].Frequency < cout.value[b].Frequency
                   => cout.value[a].F_Score <= cout.value[b].F_Score
            /\ cout.value[a].Monetary < cout.value[b].Monetary
                   => cout.value[a].M_Score <= cout.value[b].M_Score
        /\ \A a \in 1..Len(cout.value) :
            /\ cout.value[a].Recency = SetMin(Range(Column(cin, "Recency")))
                   => cout.value[a].R_Score = 4
            /\ cout.value[a].Monetary = SetMax(Range(Column(cin, "Monetary")))
                   => cout.value[a].M_Score = 4
        /\ \E a \in 1..Len(cout.value) :
            /\ cout.value[a].Frequency = SetMax(Range(Column(cin, "Frequency")))
            /\ cout.value[a].F_Score = 4
    /\ (calc = "show_rfm_analysis" /\ cout.done /\ cin = RfmExample) =>
        /\ cout.error = None
        /\ cout.value[1].R_Score = 4
        /\ cout.value[1].F_Score = 4
        /\ cout.value[1].M_Score = 4
        /\ cout.value[1].Segment = "Champions"

\* C14: quartile and tertile binning never fails: neither the RFM scoring
\* nor the spending_category column raises an error, whatever the values,
\* all identical or too few distinct ones included.
C14_BinningNeverFails ==
    (calc \in {"show_rfm_analysis", "spending_category"} /\ cout.done)
        => cout.error = None

\* the customers of the filtered subset of the visualizations page
FilteredCustomers ==
    {r.customer_id :
        r \in Range(VisualizationsFilter(cin.customer_with_purchases,
                                         cin.selected_region,
                                         cin.selected_gender))}

\* the RFM table of the customers of the filtered subset
FilteredRfm ==
    SelectSeq(cin.customer_rfm, LAMBDA r : r.customer_id \in FilteredCustomers)

\* C15: when a filter is applied on the visualizations page, the RFM
\* scores and segments shown are those computed over the customers of the
\* filtered subset, not over the whole RFM table.
C15_RfmOverFilteredSubset ==
    (calc = "display_visualizations_page" /\ cout.done) =>
        IF ShowRfmAnalysis(FilteredRfm).error # None
        THEN cout.error = ShowRfmAnalysis(FilteredRfm).error
        ELSE /\ cout.error = None
             /\ cout.value.rfm = ShowRfmAnalysis(FilteredRfm).value

\* C16: the propensity_category of a propensity_score (in tenths) in
\* [0, 0.3) is Low, in [0.3, 0.6) Medium and in [0.6, 1.0] High, so that
\* every score of [0, 1] has a category.
C16_PropensityBuckets ==
    (calc = "propensity_category" /\ cout.done) =>
        cout.value = IF cin < 3 THEN "Low"
                     ELSE IF cin < 6 THEN "Medium"
                     ELSE "High"

\* C17: when total_transactions is 0 in every row, the engagement_score of
\* every row is the number 0.4 * propensity_score + 0.3 * embedding_similarity;
\* when total_spent is 0 in every row, the priority_score of every row whose
\* engagement_score is a number is the number
\* 0.5 * propensity_score + 0.3 * engagement_score.
C17_ZeroMaximumGuarded ==
    /\ (calc = "engagement_score" /\ cout.done
            /\ ColumnMax(cin, "total_transactions") = 0) =>
        \A i \in 1..Len(cin) :
            Equals(cout.value[i].engagement_score,
                   Plus(Times(Tenths(cin[i].propensity_score), 4),
                        Times(Tenths(cin[i].embedding_similarity), 3)))
    /\ (calc = "priority_score" /\ cout.done
            /\ ColumnMax(cin, "total_spent") = 0) =>
        \A i \in 1..Len(cin) :
            ~IsNaN(cin[i].engagement_score) =>
                Equals(cout.value[i].priority_score,
                       Plus(Times(Tenths(cin[i].propensity_score), 5),
                            Times(cin[i].engagement_score, 3)))

\* C18: with propensity_score and embedding_similarity in [0, 1] and a
\* positive maximum of total_transactions, every engagement_score is in
\* [0, 1]; with a positive maximum of total_spent as well, every
\* priority_score is in [0, 1].
C18_ScoresInUnitInterval ==
    /\ (calc = "engagement_score" /\ cout.done
            /\ ColumnMax(cin, "total_transactions") > 0) =>
        \A i \in 1..Len(cin) :
            /\ LessEq(Divide(0, 1), cout.value[i].engagement_score)
            /\ LessEq(cout.value[i].engagement_score, Divide(1, 1))
    /\ (calc = "priority_score" /\ cout.done
            /\ ColumnMax(cin, "total_transactions") > 0
            /\ ColumnMax(cin, "total_spent") > 0) =>
        \A i \in 1..Len(cin) :
            /\ LessEq(Divide(0, 1), cout.value[i].priority_score)
            /\ LessEq(cout.value[i].priority_score, Divide(1, 1))

C18_Witness ==
    /\ calc = "priority_score" /\ cout.done
    /\ ColumnMax(cin, "total_transactions") > 0
    /\ ColumnMax(cin, "total_spent") > 0
    /\ \E i \in 1..Len(cin) : Equals(cout.value[i].priority_score, Divide(1, 1))
    /\ \E i \in 1..Len(cin) :
        /\ LessEq(cout.value[i].priority_score, Divide(1, 2))
        /\ ~Equals(cout.value[i].priority_score, Divide(0, 1))

\* the characters a and b are the same letter, whatever their case
SameLetter(a, b) ==
    \/ a = b
    \/ \E i \in 1..Len(UpperLetters) :
           {a, b} = {UpperLetters[i], LowerLetters[i]}

\* the k-th label occurs in the text, whatever the case of the letters
Occurs(k, text) ==
    \E i \in 1..Len(text) :
        \A j \in 1..Len(PersonaOrder[k]) :
            /\ i + j - 1 <= Len(text)
            /\ SameLetter(PersonaOrder[k][j], text[i + j - 1])

\* C19: the persona of a returned text is the first label, in the order of
\* the vocabulary, that occurs in the text whatever the case, and
\* Unclassified exactly when no label occurs.
C19_FirstLabelInOrder ==
    (calc = "generate_persona" /\ cout.done /\ cout.error = None) =>
        /\ \A k \in 1..Len(PersonaOrder) :
               (Occurs(k, cin.stdout) /\ \A j \in 1..(k - 1) : ~Occurs(j, cin.stdout))
                   => cout.value = PersonaOrder[k]
        /\ cout.value = LabelUnclassified
               <=> \A k \in 1..Len(PersonaOrder) : ~Occurs(k, cin.stdout)

C19_Witness ==
    /\ calc = "generate_persona" /\ cout.done
    /\ cin.stdout = StdOut2
    /\ cout.error = None
    /\ cout.value = LabelLoyalCustomers

\* C20: no failure of the call of the language model leaves
\* generate_persona: when the call fails the persona is Unclassified.
C20_FailureGivesUnclassified ==
    (calc = "generate_persona" /\ cout.done
         /\ (cin.error # None \/ cin.returncode # 0)) =>
        /\ cout.error = None
        /\ cout.value = LabelUnclassified

-----------------------------------------------------------------------------
(* Properties of the pages *)

\* C21: when no row passes the applied filters the page says so and stops:
\* the predictions page ends the run at its "no results" guard and no run
\* raises an IndexError after the filters section, and the insights page
\* shows its warning and none of its sections.
C21_EmptyResultGuarded ==
    /\ status = "IndexError" => shown.at = "filters"
    /\ (Settled /\ filters_applied /\ PredictionsFilter(df, temp_filters) = <<>>)
           => status = "stop" /\ shown.view = "no_results"
    /\ (fkind = "insights" /\ cout.done /\ Len(fout) = 0)
           => cout.error = None /\ cout.value = "no_results"

C21_Witness ==
    /\ Settled /\ filters_applied
    /\ PredictionsFilter(df, temp_filters) = <<>>
    /\ shown.view = "no_results"

\* the criteria that are no drivers, and all criteria
LeafCriteria == {"gender", "region", "city", "products", "similarity", "spent"}

Criteria == {"customer_id", "name"} \cup LeafCriteria

\* the criterion k has the same value before and after the step
Kept(k) ==
    /\ k \in DOMAIN temp_filters <=> k \in DOMAIN temp_filters'
    /\ k \in DOMAIN temp_filters => temp_filters'[k] = temp_filters[k]

\* the step A, a user change of the widget of the criterion k, changes no
\* other criterion and does not end in st.rerun()
ChangesOnly(A, k) ==
    A => /\ status' # "rerun"
         /\ \A j \in Criteria \ {k} : Kept(j)

\* C22: the run that follows a user change of gender, region, city, the
\* products, the similarity range or the spend range leaves customer_id,
\* name and every other criterion of temp_filters as they were, and does
\* not end in st.rerun().
C22_LeafChangesOnlyItself ==
    [][/\ ChangesOnly(SelectGender, "gender")
       /\ ChangesOnly(SelectRegion, "region")
       /\ ChangesOnly(SelectCity, "city")
       /\ ChangesOnly(SelectProducts, "products")
       /\ ChangesOnly(SlideSimilarity, "similarity")
       /\ ChangesOnly(SlideSpent, "spent")]_vars

\* a product has been selected while a driver holds a specific customer
C22_Witness ==
    /\ Settled
    /\ last_action.key = "leaf"
    /\ Criterion("customer_id") \notin {All, None}
    /\ temp_filters["products"] # {}
    /\ Criterion("gender") # All

\* C23: once the rerun that "Reset Filters" starts has ended, every
\* criterion has its default ("All", no products, the full ranges),
\* filters_applied is false and no results are shown, the markers of the
\* drivers are gone, and the page number, if there is one, is 1.
C23_ResetClears ==
    (Settled /\ last_action.key = "reset") =>
        /\ \A k \in {"customer_id", "name", "gender", "region", "city"} :
               Criterion(k) = All
        /\ temp_filters["products"] = {}
        /\ temp_filters["similarity"] = <<min_similarity, max_similarity>>
        /\ temp_filters["spent"] = <<min_spent, max_spent>>
        /\ ~filters_applied
        /\ shown.view = "configure"
        /\ last_selected_id = Absent
        /\ last_selected_name = Absent
        /\ page_number \in {NoPage, 1}

\* the criterion a driver widget stands for
DriverCriterion(key) == IF key = "filter_customer_id" THEN "customer_id" ELSE "name"

\* the five synchronised criteria are the values of the row i of df
OfRecord(i) ==
    /\ Criterion("customer_id") = df[i].customer_id
    /\ Criterion("name") = df[i].name
    /\ DemographicsOf(df[i])

\* C24: once the runs that follow the selection of a specific value in a
\* driver have ended, that driver still holds the value, and customer_id,
\* name, gender, region and city are the values of one row of df.
C24_SingleRecord ==
    (Settled /\ last_action.key \in Drivers /\ last_action.val # All) =>
        /\ Criterion(DriverCriterion(last_action.key)) = last_action.val
        /\ \E i \in 1..Len(df) : OfRecord(i)

\* a user change of one of the criteria that drive nothing
LeafEdit ==
    \/ SelectGender \/ SelectRegion \/ SelectCity
    \/ SelectProducts \/ SlideSimilarity \/ SlideSpent

\* C25: no results are on the page while "Apply Filters" has not been
\* clicked, and a change of a leaf criterion made while results are on the
\* page leaves the customers on the page as they were: only the next click
\* of "Apply Filters" changes them.
C25_ResultsFollowApply ==
    [][/\ ~filters_applied' => shown'.page = <<>>
       /\ (LeafEdit /\ shown.view = "results") =>
              /\ shown'.view = "results"
              /\ shown'.page = shown.page]_vars

\* C26: the customer of the detail pane is one of the customers of the
\* filtered result the page displays.
C26_DetailInResult ==
    (Settled /\ shown.detail # None) =>
        shown.detail \in Range(Ids(PredictionsFilter(df, temp_filters)))

\* the applied result in the order of the results column
SortedFiltered == SortDesc(PredictionsFilter(df, temp_filters), "total_spent")

\* the number of places (page, position) at which cid stands over the pages
\* 1..tp of the result
Places(cid, tp) ==
    Cardinality({pp \in (1..tp) \X (1..PageSize) :
                     /\ pp[2] <= Len(PageSlice(SortedFiltered, pp[1]))
                     /\ PageSlice(SortedFiltered, pp[1])[pp[2]].customer_id = cid})

\* C27: when a page of results is on the screen, page_number lies between 1
\* and total_pages, the least number of pages of page_size that hold the
\* result and at least 1; "Previous" is offered unless the page is the
\* first, "Next Page" unless it is the last; the page shown is the slice of
\* page_number and is not empty; and over the pages 1..total_pages every
\* customer of the result stands at exactly one place.
C27_PageWithinBounds ==
    (Settled /\ shown.view = "results") =>
        /\ TotalPages(Len(SortedFiltered)) >= 1
        /\ TotalPages(Len(SortedFiltered)) * PageSize >= Len(SortedFiltered)
        /\ (TotalPages(Len(SortedFiltered)) - 1) * PageSize < Len(SortedFiltered)
        /\ page_number \in 1..TotalPages(Len(SortedFiltered))
        /\ "prev" \in shown.buttons <=> page_number # 1
        /\ "next" \in shown.buttons
               <=> page_number # TotalPages(Len(SortedFiltered))
        /\ shown.page = Ids(PageSlice(SortedFiltered, page_number))
        /\ shown.page # <<>>
        /\ \A cid \in Range(Ids(SortedFiltered)) :
               Places(cid, TotalPages(Len(SortedFiltered))) = 1

\* the second page of a result is on the screen
C27_Witness ==
    /\ Settled /\ shown.view = "results"
    /\ page_number = 2
    /\ "prev" \in shown.buttons /\ "next" \notin shown.buttons
    /\ Len(shown.page) \in 1..PageSize

\* C28: what a send button hands to its channel is a non-empty offer that
\* was generated for the customer of the detail pane, with the name of
\* that customer and the product chosen for that customer: one of the
\* customer's predicted products (of the same category if there are any,
\* of the other categories otherwise), the one the offer was generated for.
C28_DeliveryOfOwnOffer ==
    shown.sent.channel # None =>
        /\ shown.sent.offer_msg # ""
        /\ shown.sent.of = shown.detail
        /\ shown.sent.customer_name = FirstRow("customer_id", shown.detail).name
        /\ shown.sent.product = offers[shown.detail].product
        /\ shown.sent.product
               \in PredictedProducts(FirstRow("customer_id", shown.detail))

\* C29: whenever the session is on the visualizations page, exactly one of
\* show_filter_dialog and filters_applied is true.
C29_ExactlyOneFlag ==
    page = "visualizations" => (show_filter_dialog # filters_applied)

\* the visualizations page has drawn its charts after the predictions
\* page had been visited
C29_Witness ==
    /\ page = "visualizations" /\ shown.at = "visualizations"
    /\ shown.view = "charts" /\ filters_applied /\ ~show_filter_dialog
    /\ DOMAIN temp_filters # {}

\* C30: the run that follows a click that leads to a page starts and ends
\* with filters_applied false, and the visualizations page never fails for
\* want of filtered_data: the charts it draws are drawn from the
\* filtered_data of the session, which is set.
C30_NoCarryOver ==
    [][/\ (status = "rerun" /\ last_action.key = "nav") =>
              ~filters_applied /\ ~filters_applied'
       /\ status' # "AttributeError"
       /\ shown'.view = "charts" =>
              /\ filtered_data'.set
              /\ shown'.charts = filtered_data']_vars

\* the visualizations page shows its form in the first run after the
\* click that left the predictions page, where results had been shown
C30_Witness ==
    /\ page = "visualizations" /\ shown.view = "filter_form"
    /\ last_action.key = "nav"
    /\ page_number = 1
    /\ ~filters_applied

====
